---- MODULE Spec2Model ----
(***************************************************************************)
(* Model of the bitflip crate (src/src/lib.rs): the four entry points      *)
(* ascii_bytes, ascii_str, bytes and utf8, the ByteIterator they build and *)
(* the StringIterator that filters its output through String::from_utf8.   *)
(*                                                                         *)
(* A byte is a number in 0..255, a Vec<u8> / &[u8] is a sequence of bytes  *)
(* (1-based here, 0-based in the source), a String / &str is a record      *)
(* [bytes |-> v] whose bytes are well-formed UTF-8.                        *)
(***************************************************************************)
EXTENDS Integers, Sequences, FiniteSets, TLC

(***************************************************************************)
(* Bounds of the model.                                                    *)
(***************************************************************************)
\* longest input handed to an entry point
MaxLen == 3
\* calls to next that the consumer still makes after the first None
MaxExtra == 2
\* longest input handed to an entry point when two iterators run side by side
TwoMaxLen == 1

\* The bytes inputs are built from: the ASCII letter "B" (0x42, which turns
\* into the 2-byte lead 0xC2 when bit 7 is flipped), the two bytes of U+00E9
\* (C3 A9) and the lead of a 3-byte code point (E0, as in E0 A9 A9).
InputBytes == {66, 195, 169, 224}

RECURSIVE SeqsUpTo(_, _)
SeqsUpTo(S, n) ==
    IF n = 0 THEN {<<>>}
    ELSE LET shorter == SeqsUpTo(S, n - 1)
         IN  shorter \cup {Append(s, b) : s \in {t \in shorter : Len(t) = n - 1}, b \in S}

\* every &[u8] argument the model tries
ByteInputs == SeqsUpTo(InputBytes, MaxLen)

\* the bytes and the &[u8] arguments tried when two iterators run side by side
TwoInputBytes == {66, 195}
TwoByteInputs == SeqsUpTo(TwoInputBytes, TwoMaxLen)

(***************************************************************************)
(* u8 arithmetic.                                                          *)
(***************************************************************************)
Pow2(k) == 2 ^ k

\* bit i (0 = least significant) of the byte x
BitOf(x, i) == (x \div Pow2(i)) % 2

\* `a ^ b` on u8
BitXor(a, b) ==
    LET d(i) == ((BitOf(a, i) + BitOf(b, i)) % 2) * Pow2(i)
    IN  d(0) + d(1) + d(2) + d(3) + d(4) + d(5) + d(6) + d(7)

\* `1 << bit` with the literal typed u8.  A shift amount of 8 or more
\* overflows: a build with overflow checks panics, a build without them
\* masks the amount to its low three bits.
ShlOverflows(amount) == amount >= 8
Shl1(amount) == Pow2(amount % 8)

(***************************************************************************)
(* String::from_utf8: the well-formedness rules of core::str's validator.  *)
(***************************************************************************)
IsCont(b) == b >= 128 /\ b <= 191

\* number of bytes of the code point that starts with lead byte b, 0 when b
\* cannot start one
Utf8Width(b) ==
    IF b < 128 THEN 1
    ELSE IF b >= 194 /\ b <= 223 THEN 2
    ELSE IF b >= 224 /\ b <= 239 THEN 3
    ELSE IF b >= 240 /\ b <= 244 THEN 4
    ELSE 0

\* the second byte of a 3- or 4-byte code point is restricted by the lead
\* (no overlong forms, no surrogates, nothing above U+10FFFF)
SecondOk(lead, b) ==
    IF lead = 224 THEN b >= 160 /\ b <= 191
    ELSE IF lead = 237 THEN b >= 128 /\ b <= 159
    ELSE IF lead = 240 THEN b >= 144 /\ b <= 191
    ELSE IF lead = 244 THEN b >= 128 /\ b <= 143
    ELSE IsCont(b)

RECURSIVE Utf8ValidFrom(_, _)
Utf8ValidFrom(v, i) ==
    IF i > Len(v) THEN TRUE
    ELSE LET w == Utf8Width(v[i])
         IN  /\ w # 0
             /\ i + w - 1 <= Len(v)
             /\ w >= 2 => IsCont(v[i + 1])
             /\ w >= 3 => SecondOk(v[i], v[i + 1]) /\ IsCont(v[i + 2])
             /\ w >= 4 => IsCont(v[i + 3])
             /\ Utf8ValidFrom(v, i + w)

Utf8Valid(v) == Utf8ValidFrom(v, 1)

Ok(s) == [ok |-> TRUE, string |-> s]
Err == [ok |-> FALSE]

\* the decode without the validity check (String::from_utf8_unchecked)
from_utf8_Unchecked(v) == Ok([bytes |-> v])

from_utf8(v) == IF Utf8Valid(v) THEN Ok([bytes |-> v]) ELSE Err

as_bytes(s) == s.bytes

\* every &str argument the model tries
StrInputs == {[bytes |-> v] : v \in {u \in ByteInputs : Utf8Valid(u)}}

TwoStrInputs == {[bytes |-> v] : v \in {u \in TwoByteInputs : Utf8Valid(u)}}

(***************************************************************************)
(* Option<Item>, and the outcome of a call that panicked.                  *)
(***************************************************************************)
None == [tag |-> "None"]
Some(v) == [tag |-> "Some", val |-> v]
Panic == [tag |-> "Panic"]
NotCalled == [tag |-> "NotCalled"]

(***************************************************************************)
(* The entry points.                                                       *)
(***************************************************************************)
ByteIterator(input, pos, bit, max) ==
    [tag |-> "ByteIterator", input |-> input, pos |-> pos, bit |-> bit, max |-> max]

StringIterator(inner) == [tag |-> "StringIterator", inner |-> inner]

\* ascii_bytes flipping all eight bits
ascii_bytes_Max8(input) == ByteIterator(input, 0, 0, 8)

ascii_bytes(input) == ByteIterator(input, 0, 0, 7)

ascii_str(input) == StringIterator(ascii_bytes(as_bytes(input)))

\* bytes with the width of ascii_bytes
bytes_Max7(input) == ByteIterator(input, 0, 0, 7)

bytes(input) == ByteIterator(input, 0, 0, 8)

utf8(input) == StringIterator(bytes(as_bytes(input)))

(***************************************************************************)
(* ByteIterator::next.  A call gives the iterator after the call and what  *)
(* the call returned.                                                      *)
(***************************************************************************)
Outcome(it, ret) == [it |-> it, ret |-> ret]

\* the end test with `>` in place of `>=`
AtEnd_Strict(self) == self.pos > Len(self.input)

\* `self.pos >= self.input.len()`
AtEnd(self) == self.pos >= Len(self.input)

\* the bounds check of `output[self.pos]`
IndexPanics(output, pos) == pos >= Len(output)

\* the flip with the bits numbered from the most significant end
FlipBit_MsbFirst(output, pos, bit) ==
    [output EXCEPT ![pos + 1] = BitXor(output[pos + 1], Pow2(7 - (bit % 8)))]

\* the flip with `|=` in place of `^=`
FlipBit_Or(output, pos, bit) ==
    [output EXCEPT ![pos + 1] =
        IF BitOf(output[pos + 1], bit % 8) = 1 THEN output[pos + 1]
        ELSE output[pos + 1] + Shl1(bit)]

\* `output[self.pos] ^= 1 << self.bit` on the clone of the input
FlipBit(output, pos, bit) ==
    [output EXCEPT ![pos + 1] = BitXor(output[pos + 1], Shl1(bit))]

\* the advance with `>` in place of `>=`
Advance_OffByOne(self) ==
    LET bit == self.bit + 1
    IN  IF bit > self.max
        THEN [self EXCEPT !.pos = self.pos + 1, !.bit = 0]
        ELSE [self EXCEPT !.bit = bit]

\* the advance that moves to the next byte without `self.bit = 0`
Advance_NoReset(self) ==
    LET bit == self.bit + 1
    IN  IF bit >= self.max
        THEN [self EXCEPT !.pos = self.pos + 1, !.bit = self.max - 1]
        ELSE [self EXCEPT !.bit = bit]

\* `self.bit += 1; if self.bit >= self.max { self.pos += 1; self.bit = 0; }`
Advance(self) ==
    LET bit == self.bit + 1
    IN  IF bit >= self.max
        THEN [self EXCEPT !.pos = self.pos + 1, !.bit = 0]
        ELSE [self EXCEPT !.bit = bit]

\* next rewinding the cursors when it reports the end
ByteIterator_next_Rewind(self, checks) ==
    IF AtEnd(self) THEN Outcome([self EXCEPT !.pos = 0, !.bit = 0], None)
    ELSE Outcome(Advance(self), Some(FlipBit(self.input, self.pos, self.bit)))

\* next flipping the bit in the stored input instead of in a clone of it
ByteIterator_next_InPlace(self, checks) ==
    IF AtEnd(self) THEN Outcome(self, None)
    ELSE LET output == FlipBit(self.input, self.pos, self.bit)
         IN  Outcome([Advance(self) EXCEPT !.input = output], Some(output))

\* checks: whether the build panics on arithmetic overflow
ByteIterator_next(self, checks) ==
    IF AtEnd(self) THEN Outcome(self, None)
    ELSE IF IndexPanics(self.input, self.pos) THEN Outcome(self, Panic)
    ELSE IF ShlOverflows(self.bit) /\ checks THEN Outcome(self, Panic)
    ELSE Outcome(Advance(self), Some(FlipBit(self.input, self.pos, self.bit)))

(***************************************************************************)
(* StringIterator::next: pull from the wrapped iterator until a buffer     *)
(* decodes or the wrapped iterator is exhausted.                           *)
(***************************************************************************)
\* next giving up at the first buffer that does not decode
StringIterator_next_StopAtInvalid(self, checks) ==
    LET r == ByteIterator_next(self.inner, checks)
    IN  IF r.ret.tag = "None" THEN Outcome(StringIterator(r.it), None)
        ELSE IF r.ret.tag = "Panic" THEN Outcome(StringIterator(r.it), Panic)
        ELSE LET d == from_utf8(r.ret.val)
             IN  IF d.ok THEN Outcome(StringIterator(r.it), Some(d.string))
                 ELSE Outcome(StringIterator(r.it), None)

\* next pulling one more buffer from the wrapped iterator after the one it
\* returns
RECURSIVE StringIterator_next_Overrun(_, _)
StringIterator_next_Overrun(self, checks) ==
    LET r == ByteIterator_next(self.inner, checks)
    IN  IF r.ret.tag = "None" THEN Outcome(StringIterator(r.it), None)
        ELSE IF r.ret.tag = "Panic" THEN Outcome(StringIterator(r.it), Panic)
        ELSE LET d == from_utf8(r.ret.val)
             IN  IF d.ok
                 THEN Outcome(StringIterator(ByteIterator_next(r.it, checks).it), Some(d.string))
                 ELSE StringIterator_next_Overrun(StringIterator(r.it), checks)

RECURSIVE StringIterator_next(_, _)
StringIterator_next(self, checks) ==
    LET r == ByteIterator_next(self.inner, checks)
    IN  IF r.ret.tag = "None" THEN Outcome(StringIterator(r.it), None)
        ELSE IF r.ret.tag = "Panic" THEN Outcome(StringIterator(r.it), Panic)
        ELSE LET d == from_utf8(r.ret.val)
             IN  IF d.ok THEN Outcome(StringIterator(r.it), Some(d.string))
                 \* the loop goes round with the wrapped iterator as the pull
                 \* left it (bound through a one-element set, so that it is
                 \* computed once)
                 ELSE CHOOSE o \in {StringIterator_next(it, checks) :
                                       it \in {StringIterator(r.it)}} : TRUE

\* how many times one `StringIterator::next` calls `self.0.next()`: the
\* `for` over `self.0.by_ref()` pulls until a buffer decodes or the pull
\* returns None, and that last pull is a call as well
RECURSIVE InnerPulls(_, _)
InnerPulls(self, checks) ==
    LET r == ByteIterator_next(self.inner, checks)
    IN  IF r.ret.tag # "Some" THEN 1
        ELSE IF from_utf8(r.ret.val).ok THEN 1
        ELSE 1 + InnerPulls(StringIterator(r.it), checks)

(***************************************************************************)
(* Iterator::collect, as the tests use it: call next until it returns      *)
(* None (or panics) and keep the values in order.                          *)
(***************************************************************************)
next(it, checks) ==
    IF it.tag = "ByteIterator" THEN ByteIterator_next(it, checks)
    ELSE StringIterator_next(it, checks)

RECURSIVE collect(_, _)
collect(it, checks) ==
    LET r == next(it, checks)
    IN  IF r.ret.tag = "Some" THEN <<r.ret.val>> \o collect(r.it, checks) ELSE <<>>

(***************************************************************************)
(* #[derive(Clone)]: a field by field copy, the Vec<u8> included.          *)
(***************************************************************************)
\* a clone that starts over from the first bit
clone_Restart(it) ==
    IF it.tag = "StringIterator"
    THEN StringIterator(ByteIterator(it.inner.input, 0, 0, it.inner.max))
    ELSE ByteIterator(it.input, 0, 0, it.max)

clone(it) ==
    IF it.tag = "StringIterator"
    THEN StringIterator(ByteIterator(it.inner.input, it.inner.pos, it.inner.bit, it.inner.max))
    ELSE ByteIterator(it.input, it.pos, it.bit, it.max)

(***************************************************************************)
(* A call `self.next()` while another iterator exists: <<self after the    *)
(* call, the other iterator after the call, the value returned>>.  next    *)
(* takes `&mut self` and the cursors are fields of the iterator, so the    *)
(* other iterator is left as it is.                                        *)
(***************************************************************************)
\* the cursor kept in one place shared by every iterator
CallNext_SharedCursor(self, other, checks) ==
    LET r == next(self, checks)
        c == IF r.it.tag = "StringIterator" THEN r.it.inner ELSE r.it
        moved == IF other.tag = "ByteIterator"
                 THEN [other EXCEPT !.pos = c.pos, !.bit = c.bit]
                 ELSE IF other.tag = "StringIterator"
                 THEN [other EXCEPT !.inner.pos = c.pos, !.inner.bit = c.bit]
                 ELSE other
    IN  <<r.it, moved, r.ret>>

CallNext(self, other, checks) ==
    LET r == next(self, checks)
    IN  <<r.it, other, r.ret>>

(***************************************************************************)
(* The program: a caller builds one iterator with one of the entry points  *)
(* and then keeps calling next on it.                                      *)
(***************************************************************************)
VARIABLES
    overflow_checks,  \* the build: TRUE when arithmetic overflow panics
    entry,            \* the entry point that built the iterator, "none" before
    arg,              \* the argument it was given
    iter,             \* the iterator
    ret,              \* what the latest call to next returned
    yielded,          \* the values returned inside Some so far, in order
    nones,            \* number of calls that returned None so far
    entry2,           \* a second iterator: how it was built ("none" before,
                      \* an entry point, or "clone")
    arg2,             \* the argument of its entry point
    iter2,            \* the second iterator
    ret2,             \* what its latest call to next returned
    yielded2,         \* the values it returned so far, in order
    mark              \* for a clone: how many values the first iterator had
                      \* returned when it was cloned

second == <<entry2, arg2, iter2, ret2, yielded2, mark>>

vars == <<overflow_checks, entry, arg, iter, ret, yielded, nones, second>>

NoIter == [tag |-> "NoIter"]

Init ==
    /\ overflow_checks \in BOOLEAN
    /\ entry = "none"
    /\ arg = <<>>
    /\ iter = NoIter
    /\ ret = NotCalled
    /\ yielded = <<>>
    /\ nones = 0
    /\ entry2 = "none"
    /\ arg2 = <<>>
    /\ iter2 = NoIter
    /\ ret2 = NotCalled
    /\ yielded2 = <<>>
    /\ mark = 0

Construct(name, input, it) ==
    /\ entry = "none"
    /\ entry' = name
    /\ arg' = input
    /\ iter' = it
    /\ UNCHANGED <<overflow_checks, ret, yielded, nones, second>>

Call_ascii_bytes == \E input \in ByteInputs : Construct("ascii_bytes", input, ascii_bytes(input))

Call_ascii_str == \E input \in StrInputs : Construct("ascii_str", input, ascii_str(input))

Call_bytes == \E input \in ByteInputs : Construct("bytes", input, bytes(input))

Call_utf8 == \E input \in StrInputs : Construct("utf8", input, utf8(input))

\* the caller's bookkeeping of one call to next
Record(r) ==
    /\ iter' = r.it
    /\ ret' = r.ret
    /\ yielded' = IF r.ret.tag = "Some" THEN Append(yielded, r.ret.val) ELSE yielded
    /\ nones' = IF r.ret.tag = "None" THEN nones + 1 ELSE nones
    /\ UNCHANGED <<overflow_checks, entry, arg, second>>

CanCall == ret.tag # "Panic" /\ nones <= MaxExtra

Next_ByteIterator ==
    /\ iter.tag = "ByteIterator"
    /\ CanCall
    /\ \E r \in {next(iter, overflow_checks)} : Record(r)

Next_StringIterator ==
    /\ iter.tag = "StringIterator"
    /\ CanCall
    /\ \E r \in {next(iter, overflow_checks)} : Record(r)

Next ==
    \/ Call_ascii_bytes
    \/ Call_ascii_str
    \/ Call_bytes
    \/ Call_utf8
    \/ Next_ByteIterator
    \/ Next_StringIterator

Spec == Init /\ [][Next]_vars

\* the caller is a consumer that keeps calling next on the iterator it built
\* (a `for` loop, `collect`)
FairSpec == Spec /\ WF_vars(Next_ByteIterator) /\ WF_vars(Next_StringIterator)

(***************************************************************************)
(* The program with two iterators: the caller builds a first iterator and, *)
(* at any moment, a second one, with an entry point or by cloning the      *)
(* first, and calls next on either in any order until it returns None.     *)
(***************************************************************************)
First_ascii_bytes ==
    \E input \in TwoByteInputs : Construct("ascii_bytes", input, ascii_bytes(input))

First_ascii_str ==
    \E input \in TwoStrInputs : Construct("ascii_str", input, ascii_str(input))

First_bytes ==
    \E input \in TwoByteInputs : Construct("bytes", input, bytes(input))

First_utf8 ==
    \E input \in TwoStrInputs : Construct("utf8", input, utf8(input))

Construct2(name, input, it) ==
    /\ entry2 = "none"
    /\ entry2' = name
    /\ arg2' = input
    /\ iter2' = it
    /\ UNCHANGED <<overflow_checks, entry, arg, iter, ret, yielded, nones, ret2, yielded2, mark>>

Second_ascii_bytes ==
    \E input \in TwoByteInputs : Construct2("ascii_bytes", input, ascii_bytes(input))

Second_ascii_str ==
    \E input \in TwoStrInputs : Construct2("ascii_str", input, ascii_str(input))

Second_bytes ==
    \E input \in TwoByteInputs : Construct2("bytes", input, bytes(input))

Second_utf8 ==
    \E input \in TwoStrInputs : Construct2("utf8", input, utf8(input))

\* `let second = first.clone();`
Clone ==
    /\ entry # "none"
    /\ entry2 = "none"
    /\ ret.tag # "Panic"
    /\ entry2' = "clone"
    /\ arg2' = arg
    /\ iter2' = clone(iter)
    /\ mark' = Len(yielded)
    /\ UNCHANGED <<overflow_checks, entry, arg, iter, ret, yielded, nones, ret2, yielded2>>

\* `first.next()`
Next_First ==
    /\ entry # "none"
    /\ ret.tag \notin {"None", "Panic"}
    /\ LET c == CallNext(iter, iter2, overflow_checks)
       IN  /\ iter' = c[1]
           /\ iter2' = c[2]
           /\ ret' = c[3]
           /\ yielded' = IF c[3].tag = "Some" THEN Append(yielded, c[3].val) ELSE yielded
           /\ nones' = IF c[3].tag = "None" THEN nones + 1 ELSE nones
    /\ UNCHANGED <<overflow_checks, entry, arg, entry2, arg2, ret2, yielded2, mark>>

\* `second.next()`
Next_Second ==
    /\ entry2 # "none"
    /\ ret2.tag \notin {"None", "Panic"}
    /\ LET c == CallNext(iter2, iter, overflow_checks)
       IN  /\ iter2' = c[1]
           /\ iter' = c[2]
           /\ ret2' = c[3]
           /\ yielded2' = IF c[3].tag = "Some" THEN Append(yielded2, c[3].val) ELSE yielded2
    /\ UNCHANGED <<overflow_checks, entry, arg, ret, yielded, nones, entry2, arg2, mark>>

NextTwo ==
    \/ First_ascii_bytes
    \/ First_ascii_str
    \/ First_bytes
    \/ First_utf8
    \/ Second_ascii_bytes
    \/ Second_ascii_str
    \/ Second_bytes
    \/ Second_utf8
    \/ Clone
    \/ Next_First
    \/ Next_Second

SpecTwo == Init /\ [][NextTwo]_vars

(***************************************************************************)
(* Vocabulary of the properties.                                           *)
(***************************************************************************)
ByteEntries == {"ascii_bytes", "bytes"}
StrEntries == {"ascii_str", "utf8"}

\* the policy width the documentation gives each entry point
WidthOf(e) == IF e \in {"ascii_bytes", "ascii_str"} THEN 7 ELSE 8

\* the bytes of the argument, whichever its type
ArgBytes == IF entry \in StrEntries THEN arg.bytes ELSE arg

\* the bytes of a yielded value, whichever its type
BytesOf(x) == IF entry \in StrEntries THEN x.bytes ELSE x

\* v with bit b of byte p (0-based) inverted, by case on the bit's value
Inverted(v, p, b) ==
    [i \in 1..Len(v) |->
        IF i # p + 1 THEN v[i]
        ELSE IF BitOf(v[i], b) = 1 THEN v[i] - Pow2(b) ELSE v[i] + Pow2(b)]

\* the (byte, bit) places where two buffers of the same length differ
DiffBits(v, w) ==
    {pb \in {i \in 1..Len(v) : v[i] # w[i]} \X (0..7) :
        BitOf(v[pb[1]], pb[2]) # BitOf(w[pb[1]], pb[2])}

Exhausted == ret.tag = "None"

\* C1: for an input of length L, the iterators of ascii_bytes (W = 7) and
\* bytes (W = 8) return Some exactly L*W times before the first None: never
\* more than L*W values, and None only once L*W values have been returned.
C1_ExactCount ==
    entry \in ByteEntries =>
        /\ ret.tag # "Panic"
        /\ Len(yielded) <= Len(arg) * WidthOf(entry)
        /\ Exhausted => Len(yielded) = Len(arg) * WidthOf(entry)

C1_Witness ==
    /\ entry = "bytes"
    /\ Len(arg) = 2
    /\ Exhausted
    /\ Len(yielded) = 16

\* C2: the k-th value a ByteIterator returns (0-based) is the input with
\* bit (k mod W) of byte (k div W) inverted, bit 0 the least significant,
\* and every other byte untouched.
C2_LexOrder ==
    entry \in ByteEntries =>
        \A k \in 0..(Len(yielded) - 1) :
            yielded[k + 1] = Inverted(arg, k \div WidthOf(entry), k % WidthOf(entry))

C2_Witness ==
    /\ entry = "ascii_bytes"
    /\ Len(arg) = 2
    /\ Len(yielded) = 9
    /\ yielded[9] = Inverted(arg, 1, 1)

\* C3: for a non-empty input, every value ascii_bytes / bytes yield has the
\* length of the input and differs from it in exactly one bit, and the
\* values yielded are pairwise distinct.
C3_OneBitDistinct ==
    (entry \in ByteEntries /\ Len(arg) > 0) =>
        /\ \A k \in 1..Len(yielded) :
              /\ Len(yielded[k]) = Len(arg)
              /\ Cardinality(DiffBits(yielded[k], arg)) = 1
        /\ \A j, k \in 1..Len(yielded) : j # k => yielded[j] # yielded[k]

C3_Witness ==
    /\ entry = "bytes"
    /\ Len(arg) = 2
    /\ Exhausted
    /\ Len(yielded) = 16
    /\ Cardinality({yielded[k] : k \in 1..16}) = 16

\* the ByteIterator a string entry point wraps, built on the same input
WrappedOf(e, v) == IF e = "ascii_str" THEN ascii_bytes(v) ELSE bytes(v)

IsPrefix(s, t) == Len(s) <= Len(t) /\ \A k \in 1..Len(s) : s[k] = t[k]

\* C4: the strings a StringIterator (ascii_str, utf8) yields are, in order,
\* the buffers the wrapped ByteIterator yields on the same input and width
\* that are valid UTF-8: at every moment a prefix of that filtered sequence
\* (nothing invalid yielded, nothing valid skipped, order kept), and the
\* whole of it once next has returned None.
C4_FilteredSubsequence ==
    entry \in StrEntries =>
        LET all == collect(WrappedOf(entry, arg.bytes), overflow_checks)
            kept == SelectSeq(all, Utf8Valid)
            got == [k \in 1..Len(yielded) |-> yielded[k].bytes]
        IN  /\ IsPrefix(got, kept)
            /\ Exhausted => got = kept

\* utf8 on "B", U+00E9: exhausted after yielding some but not all buffers
C4_Witness ==
    /\ entry = "utf8"
    /\ arg = [bytes |-> <<66, 195, 169>>]
    /\ Exhausted
    /\ Len(yielded) > 7
    /\ Len(yielded) < 24

\* C5: under the 7-bit policy (ascii_bytes, ascii_str) bit 7 of no byte is
\* ever flipped, also when the input has bytes with bit 7 set: every yielded
\* variant agrees with the input on bit 7 of every byte and differs from it
\* only at a bit index in 0..6.
C5_HighBitKept ==
    entry \in {"ascii_bytes", "ascii_str"} =>
        \A k \in 1..Len(yielded) :
            LET v == BytesOf(yielded[k])
            IN  /\ Len(v) = Len(ArgBytes)
                /\ \A i \in 1..Len(v) : BitOf(v[i], 7) = BitOf(ArgBytes[i], 7)
                /\ \A pb \in DiffBits(v, ArgBytes) : pb[2] <= 6

\* ascii_bytes on an input whose first byte has bit 7 set, run to the end,
\* bit 6 of that byte having been flipped on the way
C5_Witness ==
    /\ entry = "ascii_bytes"
    /\ Len(arg) = 2
    /\ arg[1] = 195
    /\ Exhausted
    /\ yielded[7] = <<131, arg[2]>>

\* C6: exhaustion is permanent for ByteIterator and StringIterator: once a
\* call to next has returned None, every later call returns None too, and
\* nothing more is yielded.
C6_ExhaustionPermanent ==
    [][Exhausted => (ret'.tag = "None" /\ yielded' = yielded)]_vars

\* None returned a second time, by a ByteIterator that had yielded values
C6_Witness ==
    /\ entry = "bytes"
    /\ Len(arg) > 0
    /\ Len(yielded) > 0
    /\ nones >= 2

\* C7: on the empty input the iterator of each of the four entry points
\* returns None from its very first call to next: nothing is ever yielded.
C7_EmptyInput ==
    (entry # "none" /\ Len(ArgBytes) = 0) =>
        /\ yielded = <<>>
        /\ ret.tag \in {"NotCalled", "None"}

C7_Witness ==
    /\ entry = "utf8"
    /\ arg = [bytes |-> <<>>]
    /\ nones = 1
    /\ ret = None

IsAscii(v) == \A i \in 1..Len(v) : v[i] < 128

Range(s) == {s[k] : k \in 1..Len(s)}

\* the variants of v with bit 7 of one byte inverted
HighBitFlips(v) == {Inverted(v, p, 7) : p \in 0..(Len(v) - 1)}

\* C8: for an input string of L bytes, all below 0x80, utf8 yields the same
\* strings in the same order as ascii_str, exactly 7*L of them: of the
\* buffers bytes yields on the input the filter drops exactly the L ones with
\* bit 7 of a byte flipped.
C8_Utf8OnAscii ==
    (entry \in StrEntries /\ IsAscii(arg.bytes)) =>
        LET other == IF entry = "utf8" THEN ascii_str(arg) ELSE utf8(arg)
            expected == collect(other, overflow_checks)
            unfiltered == Range(collect(bytes(arg.bytes), overflow_checks))
            strings == Range(collect(utf8(arg), overflow_checks))
        IN  /\ IsPrefix(yielded, expected)
            /\ Exhausted =>
                  /\ yielded = expected
                  /\ Len(yielded) = 7 * Len(arg.bytes)
                  /\ {b \in unfiltered : [bytes |-> b] \notin strings} = HighBitFlips(arg.bytes)
                  /\ Cardinality(HighBitFlips(arg.bytes)) = Len(arg.bytes)

\* utf8 on "BB", run to the end: the flips to C2 42 and 42 C2 were dropped
C8_Witness ==
    /\ entry = "utf8"
    /\ arg = [bytes |-> <<66, 66>>]
    /\ Exhausted
    /\ Len(yielded) = 14

\* C9 as stated: ascii_str returns 7 * input.len() strings for every input
\* string, as many as ascii_bytes returns byte vectors.
C9_Original ==
    (entry = "ascii_str" /\ Exhausted) =>
        /\ Len(yielded) = 7 * Len(arg.bytes)
        /\ Len(yielded) = Len(collect(ascii_bytes(arg.bytes), overflow_checks))

\* C9 (amended): ascii_str returns 7 * input.len() strings, as many as
\* ascii_bytes returns byte vectors, for every input string whose bytes are
\* all ASCII; for an input string with a non-ASCII byte it returns fewer.
C9_AsciiStrCount ==
    (entry = "ascii_str" /\ Exhausted) =>
        LET n == Len(collect(ascii_bytes(arg.bytes), overflow_checks))
        IN  /\ n = 7 * Len(arg.bytes)
            /\ IsAscii(arg.bytes) => Len(yielded) = n
            /\ ~IsAscii(arg.bytes) => Len(yielded) < n

\* ascii_str on "B", U+00E9, run to the end: 7 + 4 + 6 strings, not 21
C9_Witness ==
    /\ entry = "ascii_str"
    /\ arg = [bytes |-> <<66, 195, 169>>]
    /\ Exhausted
    /\ Len(yielded) = 17

\* C10: for an input of length L the set of variants bytes yields contains
\* the set ascii_bytes yields on the same input, and what it has more is
\* exactly the L variants with bit 7 of one byte flipped (8*L against 7*L).
C10_BytesSuperset ==
    (entry \in ByteEntries /\ Exhausted) =>
        LET wide == IF entry = "bytes" THEN Range(yielded)
                    ELSE Range(collect(bytes(arg), overflow_checks))
            narrow == IF entry = "ascii_bytes" THEN Range(yielded)
                      ELSE Range(collect(ascii_bytes(arg), overflow_checks))
        IN  /\ narrow \subseteq wide
            /\ wide \ narrow = HighBitFlips(arg)
            /\ Cardinality(wide \ narrow) = Len(arg)
            /\ Cardinality(wide) = 8 * Len(arg)
            /\ Cardinality(narrow) = 7 * Len(arg)

\* bytes on C3 A9 run to the end, having yielded 43 A9 and C3 29
C10_Witness ==
    /\ entry = "bytes"
    /\ arg = <<195, 169>>
    /\ Exhausted
    /\ {<<67, 169>>, <<195, 41>>} \subseteq Range(yielded)

\* the ByteIterator of the program: the iterator itself, or the one a
\* StringIterator wraps
Inner(it) == IF it.tag = "StringIterator" THEN it.inner ELSE it

\* C11: in every state of a ByteIterator, after construction and after any
\* number of next calls, 0 <= bit < max and 0 <= pos <= input.len(), max is
\* the width fixed at construction (7 or 8), and pos = input.len() exactly
\* when the ByteIterator is exhausted: a call to its next returns None (for
\* an unwrapped iterator, exactly when all len * max variants are out).
C11_CursorRange ==
    entry # "none" =>
        LET b == Inner(iter)
        IN  /\ b.bit >= 0 /\ b.bit < b.max
            /\ b.pos >= 0 /\ b.pos <= Len(b.input)
            /\ b.max = WidthOf(entry) /\ b.max \in {7, 8}
            /\ (b.pos = Len(b.input)) <=> (next(b, overflow_checks).ret.tag = "None")
            /\ Exhausted => b.pos = Len(b.input)
            /\ entry \in ByteEntries =>
                  ((b.pos = Len(b.input)) <=> (Len(yielded) = Len(arg) * b.max))

\* ascii_bytes on two bytes, at the last bit of the second byte
C11_Witness ==
    /\ entry = "ascii_bytes"
    /\ Len(arg) = 2
    /\ iter.pos = 1
    /\ iter.bit = 6
    /\ Len(yielded) = 13

\* C12: no call to next changes the iterator's stored input or its width
\* max, and every variant is made from the original input: each returned
\* value differs from the input in one bit, so flips do not accumulate from
\* one variant to the next.
C12_InputUntouched ==
    [][iter.tag # "NoIter" =>
          /\ Inner(iter').input = Inner(iter).input
          /\ Inner(iter').input = ArgBytes
          /\ Inner(iter').max = Inner(iter).max
          /\ ret'.tag = "Some" => Cardinality(DiffBits(BytesOf(ret'.val), ArgBytes)) = 1]_vars

\* two variants out, the second two bits away from the first, the input
\* still stored as given
C12_Witness ==
    /\ entry = "bytes"
    /\ Len(arg) = 2
    /\ Len(yielded) = 2
    /\ iter.input = arg
    /\ Cardinality(DiffBits(yielded[2], yielded[1])) = 2
    /\ Cardinality(DiffBits(yielded[2], arg)) = 1

\* the iterator the entry point e returns on the argument a
Built(e, a) ==
    IF e = "ascii_bytes" THEN ascii_bytes(a)
    ELSE IF e = "ascii_str" THEN ascii_str(a)
    ELSE IF e = "bytes" THEN bytes(a)
    ELSE utf8(a)

Entries == ByteEntries \cup StrEntries

\* C13: iterators built independently share no state: with two iterators
\* built by entry points, on the same or on different inputs, and next
\* called on them in any interleaving, each yields the sequence it yields
\* when it runs alone (at every moment a prefix of it, all of it at None).
C13_NoSharedState ==
    (entry \in Entries /\ entry2 \in Entries) =>
        LET alone1 == collect(Built(entry, arg), overflow_checks)
            alone2 == collect(Built(entry2, arg2), overflow_checks)
        IN  /\ IsPrefix(yielded, alone1)
            /\ ret.tag = "None" => yielded = alone1
            /\ IsPrefix(yielded2, alone2)
            /\ ret2.tag = "None" => yielded2 = alone2
            /\ ret.tag # "Panic" /\ ret2.tag # "Panic"

\* bytes and ascii_str side by side on the same byte, both part-way
C13_Witness ==
    /\ entry = "bytes"
    /\ entry2 = "ascii_str"
    /\ arg = <<66>>
    /\ arg2 = [bytes |-> <<66>>]
    /\ Len(yielded) = 3
    /\ Len(yielded2) = 5

\* the 0-based positions of the continuation bytes of the 2-byte code
\* points of the well-formed buffer v (a byte in C2..DF is their lead)
ContOfTwoByte(v) == {p \in 1..(Len(v) - 1) : v[p] >= 194 /\ v[p] <= 223}

\* C14: on an input with a 2-byte code point, utf8 never yields the input
\* with bit 6 or bit 7 of that code point's continuation byte flipped (its
\* top two bits no longer 10): the buffer is dropped, the call does not
\* fail, and the iterator goes on to the variants after it.
C14_BrokenContinuationDropped ==
    entry = "utf8" =>
        /\ ret.tag # "Panic"
        /\ \A p \in ContOfTwoByte(arg.bytes), b \in {6, 7} :
              LET broken == Inverted(arg.bytes, p, b)
              IN  /\ ~IsCont(broken[p + 1])
                  /\ \A k \in 1..Len(yielded) : yielded[k].bytes # broken

\* utf8 on U+00E9, "B", run to the end: bit 5 of the continuation byte and
\* bit 0 of the "B" after it were yielded, the two broken buffers between
\* them were not
C14_Witness ==
    /\ entry = "utf8"
    /\ arg = [bytes |-> <<195, 169, 66>>]
    /\ Exhausted
    /\ \E k \in 1..(Len(yielded) - 1) :
          /\ yielded[k].bytes = <<195, 137, 66>>
          /\ yielded[k + 1].bytes = <<195, 169, 67>>

\* the progress of a ByteIterator: how many (position, bit) pairs lie before
\* its cursor
Measure(b) == b.pos * b.max + b.bit

\* the variant of the (position, bit) pair number n (0-based) of b
VariantAt(b, n) == Inverted(b.input, n \div b.max, n % b.max)

\* C15: one call to StringIterator::next pulls from the wrapped ByteIterator
\* up to and including the first buffer that is valid UTF-8 and no further:
\* when it returns Some(s), the buffers of the pairs it passed did not
\* decode and the inner cursor is the immediate successor of the pair that
\* produced s; when it returns None, no remaining buffer decoded and the
\* inner iterator is exhausted (pos = input.len()).
C15_StopsAtFirstValid ==
    [][iter.tag = "StringIterator" =>
          LET old == iter.inner
              new == iter'.inner
              from == Measure(old)
          IN  /\ ret'.tag = "Some" =>
                    LET n == Measure(new) - 1
                    IN  /\ n >= from
                        /\ new.bit < new.max
                        /\ ret'.val.bytes = VariantAt(old, n)
                        /\ Utf8Valid(VariantAt(old, n))
                        /\ \A m \in from..(n - 1) : ~Utf8Valid(VariantAt(old, m))
              /\ ret'.tag = "None" =>
                    /\ new.pos = Len(new.input)
                    /\ new.bit = 0
                    /\ \A m \in from..(Len(old.input) * old.max - 1) :
                          ~Utf8Valid(VariantAt(old, m))
              /\ ret'.tag \in {"Some", "None"}]_vars

\* utf8 on "BB": the eighth string is bit 0 of the second byte, the call
\* that returned it passed the buffer C2 42 and stopped right after 42 43
C15_Witness ==
    /\ entry = "utf8"
    /\ arg = [bytes |-> <<66, 66>>]
    /\ Len(yielded) = 8
    /\ yielded[8].bytes = <<66, 67>>
    /\ iter.inner.pos = 1
    /\ iter.inner.bit = 1

\* C16: no call to next can fail, for any input and either width: whenever
\* ByteIterator::next gets past its end test and indexes output[pos], pos is
\* below input.len(), and the bit it shifts 1 by is at most 7, so the mask
\* fits in a u8; a call returns Some or None and never panics, in builds
\* with and without overflow checks.
C16_NextIsTotal ==
    entry # "none" =>
        LET b == Inner(iter)
            r == ByteIterator_next(b, overflow_checks)
        IN  /\ ret.tag \in {"NotCalled", "Some", "None"}
            /\ r.ret.tag \in {"Some", "None"}
            /\ next(iter, overflow_checks).ret.tag \in {"Some", "None"}
            /\ r.ret.tag = "Some" =>
                  /\ b.pos >= 0 /\ b.pos < Len(b.input)
                  /\ b.bit >= 0 /\ b.bit <= 7
                  /\ Pow2(b.bit) <= 255
            /\ r.ret.tag = "None" => r.it = b

\* bytes on "BBB" in a build with overflow checks, just after the call that
\* indexed the last byte and shifted by 7
C16_Witness ==
    /\ overflow_checks
    /\ entry = "bytes"
    /\ arg = <<66, 66, 66>>
    /\ Len(yielded) = 24
    /\ ret = Some(<<66, 66, 194>>)

\* the steps of C17 that do not count pulls: the progress measure
\* pos * max + bit of the ByteIterator starts at 0, stays within
\* 0..input.len() * max, grows by exactly 1 with each ByteIterator::next that
\* returns Some, and is at the top when next returns None
MeasureSteps ==
    /\ [][iter.tag # "NoIter" =>
            LET old == Inner(iter)
                new == Inner(iter')
                top == Len(old.input) * old.max
            IN  /\ Measure(old) >= 0 /\ Measure(new) <= top
                /\ (iter.tag = "ByteIterator" /\ ret'.tag = "Some") =>
                      Measure(new) = Measure(old) + 1
                /\ (iter.tag = "StringIterator" /\ ret'.tag = "Some") =>
                      Measure(new) > Measure(old)
                /\ ret'.tag = "None" => Measure(new) = top
                /\ ret'.tag \in {"Some", "None"}]_vars
    /\ [][iter.tag = "NoIter" => Measure(Inner(iter')) = 0]_vars

\* the pairs left before the cursor of b reaches the end
Remaining(b) == Len(b.input) * b.max - Measure(b)

\* C17 as stated: every iterator reaches exhaustion after finitely many
\* calls; each ByteIterator::next that returns Some adds exactly 1 to
\* pos * max + bit; a consumer that keeps calling next eventually gets None;
\* and one StringIterator::next ends after at most
\* input.len() * max - (pos * max + bit) inner pulls.
C17_Original ==
    /\ MeasureSteps
    /\ [][iter.tag = "StringIterator" =>
            InnerPulls(iter, overflow_checks) <= Remaining(iter.inner)]_vars
    /\ (entry # "none") ~> Exhausted

\* C17, amended: every iterator reaches exhaustion after finitely many
\* calls; each ByteIterator::next that returns Some adds exactly 1 to
\* pos * max + bit; a consumer that keeps calling next eventually gets None;
\* and one StringIterator::next ends after at most
\* input.len() * max - (pos * max + bit) inner pulls that return a buffer,
\* followed, when it returns None, by the one pull that returns None: at
\* most the remaining count plus 1 calls of the inner next.
C17_Terminates ==
    /\ MeasureSteps
    /\ [][iter.tag = "StringIterator" =>
            LET n == InnerPulls(iter, overflow_checks)
                some == Measure(iter'.inner) - Measure(iter.inner)
            IN  /\ n = some + (IF ret'.tag = "None" THEN 1 ELSE 0)
                /\ some <= Remaining(iter.inner)
                /\ n <= Remaining(iter.inner) + 1
                /\ ret'.tag = "Some" => n <= Remaining(iter.inner)]_vars
    /\ (entry # "none") ~> Exhausted

\* utf8 on "BB" run to the end: 16 pairs passed, 14 strings out, None; with
\* nothing remaining one more call still pulls once
C17_Witness ==
    /\ entry = "utf8"
    /\ arg = [bytes |-> <<66, 66>>]
    /\ Exhausted
    /\ Measure(iter.inner) = 16
    /\ Len(yielded) = 14
    /\ Remaining(iter.inner) = 0
    /\ InnerPulls(iter, overflow_checks) = 1

\* C18: a clone taken of a ByteIterator or StringIterator after any number
\* of next calls is an independent iterator that yields exactly what the
\* original had left when it was cloned: under every interleaving of the
\* calls on the two, the clone's values are the original's whole sequence
\* from the clone point on, the original's values are its whole sequence as
\* if no clone existed, and neither call panics.
C18_CloneYieldsSuffix ==
    entry2 = "clone" =>
        LET full == collect(Built(entry, arg), overflow_checks)
            rest == SubSeq(full, mark + 1, Len(full))
        IN  /\ mark <= Len(full)
            /\ IsPrefix(yielded2, rest)
            /\ ret2.tag = "None" => yielded2 = rest
            /\ IsPrefix(yielded, full)
            /\ ret.tag = "None" => yielded = full
            /\ ret.tag # "Panic" /\ ret2.tag # "Panic"

\* ascii_str on "B" cloned after 2 strings; then the original went on to 5
\* and the clone, in between, gave 3
C18_Witness ==
    /\ entry = "ascii_str"
    /\ entry2 = "clone"
    /\ arg = [bytes |-> <<66>>]
    /\ mark = 2
    /\ Len(yielded) = 5
    /\ Len(yielded2) = 3
    /\ ret2.tag = "Some"

====
